---- MODULE Spec2Model ----
(***************************************************************************)
(* DarkHarvest: cloud-outage incidents (AWS RSS, GCP JSON, Cloudflare      *)
(* JSON) clamped to a query window, and a DShield per-port daily series    *)
(* summed into one gap-free daily series.                                  *)
(*                                                                         *)
(* Conventions                                                             *)
(*   - a Python Optional[X] is a sequence: <<>> is None, <<x>> is x;       *)
(*   - a Python str that the code takes apart is a sequence of one-        *)
(*     character strings; "" is <<>>;                                      *)
(*   - the clock ticks in days. A datetime is [t, tz]: tz = FALSE is a     *)
(*     naive datetime whose wall clock reads t, tz = TRUE is an aware      *)
(*     datetime whose UTC instant is t. Python orders two naive or two     *)
(*     aware datetimes by t and raises TypeError when one is naive and     *)
(*     the other aware;                                                    *)
(*   - a raised exception ends the function: its position names the        *)
(*     exception.                                                          *)
(***************************************************************************)
EXTENDS Integers, Sequences, FiniteSets, TLC

VARIABLES
    start, end,                 \* the query window handed to every function
    inc_start, inc_end,         \* _clamp_range: the incident window
    clamped, cpc,               \* _clamp_range: its result, and whether it ran
    pc,                         \* an adapter's position
    feed,                       \* fetch_aws_incidents: the feed entries read so far
    grouped,                    \* fetch_aws_incidents: key -> updates, in insertion order
    gi,                         \* fetch_aws_incidents: groups already turned into incidents
    incidents,                  \* the adapter's `incidents` list
    nitems,                     \* fetch_gcp/cloudflare_incidents: items read so far
    entries, shape,             \* a sequence of entry objects and the shape wrapping it
    payload, xpc,               \* _extract_portinfo_list: its argument and position
    portinfo,                   \* the list _extract_portinfo_list returned
    ports, metric,              \* build_botnet_proxy_series: its arguments
    np,                         \* build_botnet_proxy_series: ports already fetched
    frames,                     \* build_botnet_proxy_series: the non-empty frames
    requests,                   \* HTTP requests DshieldClient has sent
    daily, spc,                 \* build_botnet_proxy_series: result and position
    mpc,                        \* main: position
    aws, gcp, cloudflare,       \* main: the three adapters' results
    outages_df,                 \* main: the incident table
    csv_written, plot_written   \* main: the two artifacts

clampVars == <<inc_start, inc_end, clamped, cpc>>
adapterVars == <<pc, feed, grouped, gi, incidents, nitems>>
shapeVars == <<entries, shape, payload, xpc>>
seriesVars == <<ports, metric, np, frames, requests, daily, spc>>
mainVars == <<mpc, aws, gcp, cloudflare, outages_df, csv_written, plot_written>>
vars == <<start, end, clampVars, adapterVars, shapeVars, portinfo, seriesVars, mainVars>>

----------------------------------------------------------------------------
(* Bounds *)

\* days on the model's clock: 0..MaxT
MaxT == 2
\* the UTC offset, in days, of a timestamp string that carries one
TzOff == 1
\* entries of the AWS feed
MaxFeed == 2
\* items of a GCP or Cloudflare payload
MaxItems == 2
\* days of the DShield query range: 0..MaxDay
MaxDay == 1
\* entry objects in one DShield payload answering fetch_port_history
MaxEntries == 1
\* entry objects handed to _extract_portinfo_list on its own
MaxLen == 2
\* ports handed to build_botnet_proxy_series
MaxPorts == 2

----------------------------------------------------------------------------
(* Python values *)

None == <<>>
Some(x) == <<x>>
IsNone(o) == o = <<>>
Val(o) == o[1]

Naive(t) == [t |-> t, tz |-> FALSE]
Aware(t) == [t |-> t, tz |-> TRUE]

Times == 0..MaxT
NaiveTimes == {Naive(t) : t \in Times}
Datetimes == NaiveTimes \cup {Aware(t) : t \in Times}

\* datetime.__lt__ / __gt__ raise TypeError for a naive and an aware operand
Comparable(a, b) == a.tz = b.tz
DtMax(a, b) == IF b.t > a.t THEN b ELSE a
DtMin(a, b) == IF b.t < a.t THEN b ELSE a

----------------------------------------------------------------------------
(* _clamp_range (aws.py, gcp.py and cloudflare.py hold the same text) *)

\* the comparisons of `inc_end < start or inc_start > end`, left to right with
\* short circuit, then max(inc_start, start) and min(inc_end, end)
ClampRaises(is, ie, s, e) ==
    \/ ~Comparable(ie, s)
    \/ /\ ~(ie.t < s.t)
       /\ ~Comparable(is, e)

NoOverlap(is, ie, s, e) == ie.t < s.t \/ is.t > e.t

ClampSwapped(is, ie, s, e) ==
    IF NoOverlap(is, ie, s, e) THEN None
    ELSE Some([lo |-> DtMin(is, s), hi |-> DtMax(ie, e)])

\* None, or Some([lo, hi]); defined where ClampRaises is false
ClampRange(is, ie, s, e) ==
    IF NoOverlap(is, ie, s, e) THEN None
    ELSE Some([lo |-> DtMax(is, s), hi |-> DtMin(ie, e)])

----------------------------------------------------------------------------
(* Strings *)

RECURSIVE LStrip(_)
LStrip(s) == IF s # <<>> /\ Head(s) = " " THEN LStrip(Tail(s)) ELSE s

RECURSIVE RStrip(_)
RStrip(s) ==
    IF s # <<>> /\ s[Len(s)] = " " THEN RStrip(SubSeq(s, 1, Len(s) - 1)) ELSE s

\* str.strip()
Strip(s) == RStrip(LStrip(s))

\* the index of the first c in s, 0 when there is none
FirstIndex(s, c) ==
    IF \E i \in 1..Len(s) : s[i] = c
    THEN CHOOSE i \in 1..Len(s) : s[i] = c /\ \A j \in 1..(i - 1) : s[j] # c
    ELSE 0

\* re.search(r'\b(w)\b', title, re.IGNORECASE): a title is its sequence of
\* words, case folded
HasWord(title, w) == \E i \in 1..Len(title) : title[i] = w
HasPhrase(title, w1, w2) ==
    \E i \in 1..(Len(title) - 1) : title[i] = w1 /\ title[i + 1] = w2

----------------------------------------------------------------------------
(* Timestamps as the providers send them *)

\* kind "none": the field is absent, None or blank; "bad": a string
\* dateutil cannot parse; "ok": a string reading `wall`, with UTC offset
\* `off` when tz
NoTs == [kind |-> "none", wall |-> 0, tz |-> FALSE, off |-> 0]
BadTs == [kind |-> "bad", wall |-> 0, tz |-> FALSE, off |-> 0]
OkTs(w, tz) == [kind |-> "ok", wall |-> w, tz |-> tz, off |-> IF tz THEN TzOff ELSE 0]
RawTs == {NoTs, BadTs} \cup {OkTs(w, tz) : w \in Times, tz \in BOOLEAN}

\* dateutil.parser.parse raises ParserError on a string it cannot read
ParseRaises(x) == x.kind = "bad"
\* dateutil.parser.parse of a readable string
DateParse(x) == IF x.tz THEN Aware(x.wall - x.off) ELSE Naive(x.wall)

----------------------------------------------------------------------------
(* src/sources/aws.py *)

\* _to_dt: the parsed value as it is, aware or naive
AwsToDt(x) == IF x.kind = "none" THEN None ELSE Some(DateParse(x))

\* _aws_incident_key_from_guid
AwsIncidentKeyFromGuid(guid) ==
    LET i == FirstIndex(guid, "#") IN
    IF i > 0 THEN Strip(SubSeq(guid, i + 1, Len(guid))) ELSE Strip(guid)

\* the severity keywords of fetch_aws_incidents
AwsSeverity(title) ==
    IF HasWord(title, "resolved") THEN "resolved"
    ELSE IF \/ HasPhrase(title, "service", "disruption")
            \/ HasPhrase(title, "service", "degradation")
            \/ HasPhrase(title, "increased", "errors")
         THEN "impact"
         ELSE ""

AwsUrl(key) == <<"http://status.aws.amazon.com/#">> \o key

\* feed entries: guid stands for `entry.guid or entry.id or ''`, published for
\* `entry.published or entry.updated`
Guids == {<<>>, <<"a", "#", "1">>, <<"1", " ">>, <<"2">>}
Titles == {<<"resolved">>, <<"service", "disruption">>}
AwsEntries == [guid : Guids, title : Titles, published : RawTs]

\* grouped.setdefault(key, []).append(u): a dict keeps its keys in insertion order
GroupIndex(g, key) ==
    IF \E i \in 1..Len(g) : g[i].key = key
    THEN CHOOSE i \in 1..Len(g) : g[i].key = key
    ELSE 0

GroupAppend(g, key, u) ==
    LET i == GroupIndex(g, key) IN
    IF i = 0 THEN Append(g, [key |-> key, updates |-> <<u>>])
    ELSE [g EXCEPT ![i].updates = Append(@, u)]

\* sorted(updates, key=lambda t: t[0]) is stable: an update goes after every
\* update that is not later than it
RECURSIVE InsertByTime(_, _)
InsertByTime(sorted, u) ==
    IF sorted = <<>> THEN <<u>>
    ELSE IF sorted[Len(sorted)].published.t <= u.published.t THEN Append(sorted, u)
         ELSE Append(InsertByTime(SubSeq(sorted, 1, Len(sorted) - 1), u),
                     sorted[Len(sorted)])

RECURSIVE SortedByTime(_)
SortedByTime(updates) ==
    IF updates = <<>> THEN <<>>
    ELSE InsertByTime(SortedByTime(SubSeq(updates, 1, Len(updates) - 1)),
                      updates[Len(updates)])

\* sorted raises TypeError when it compares a naive with an aware datetime,
\* which it does as soon as the list holds both
SortRaises(updates) ==
    \E i, j \in 1..Len(updates) : ~Comparable(updates[i].published, updates[j].published)

Incident(provider, id, title, s, e, sev, url) ==
    [provider |-> provider, incident_id |-> id, title |-> title,
     start |-> s, end |-> e, severity |-> sev, url |-> url]

AwsSpanUnsorted(updates) ==
    [inc_start |-> updates[1].published, inc_end |-> updates[Len(updates)].published,
     title |-> updates[Len(updates)].title]

\* lines 78-81 of one group
AwsSpan(updates) ==
    LET us == SortedByTime(updates) IN
    [inc_start |-> us[1].published, inc_end |-> us[Len(us)].published,
     title |-> us[Len(us)].title]

AwsGroupRaises(g, s, e) ==
    \/ SortRaises(g.updates)
    \/ LET sp == AwsSpan(g.updates) IN ClampRaises(sp.inc_start, sp.inc_end, s, e)

\* lines 77-108 for one group: the incidents list after it
AwsEmit(incs, g, s, e) ==
    LET sp == AwsSpan(g.updates)
        c == ClampRange(sp.inc_start, sp.inc_end, s, e)
    IN  IF IsNone(c) THEN incs
        ELSE Append(incs, Incident("AWS", g.key, sp.title, Val(c).lo, Val(c).hi,
                                   AwsSeverity(sp.title), AwsUrl(g.key)))

----------------------------------------------------------------------------
(* src/sources/gcp.py *)

\* _to_dt: an aware value is converted to UTC and its tzinfo dropped
GcpToDt(x) == IF x.kind = "none" THEN None ELSE Some(Naive(DateParse(x).t))

\* `a or b` over strings
OrStr(a, b) == IF a # <<>> THEN a ELSE b
\* `a or b` over Optional[datetime]
OrDt(a, b) == IF ~IsNone(a) THEN a ELSE b

GcpNumbers == {<<>>, <<"7">>}
GcpIdents == {<<>>, <<"8">>}
GcpDescs == {<<>>, <<"d">>}
GcpItems ==
    [number : GcpNumbers, id : GcpIdents, external_desc : GcpDescs,
     title : {<<"outage">>}, service_name : {<<"compute">>}, uri : {<<"u">>},
     severity : {<<>>}, impact : {<<"high">>},
     begin : RawTs, end : RawTs, most_recent_update : RawTs]

\* datetime.isoformat()
IsoFormat(d) == <<ToString(d.t)>>

\* the _to_dt calls of lines 75-76, in order; `or` does not evaluate its right
\* operand when the left one is a datetime
GcpItemRaises(item, s, e) ==
    \/ ParseRaises(item.begin)
    \/ ParseRaises(item.end)
    \/ IsNone(GcpToDt(item.end)) /\ ParseRaises(item.most_recent_update)
    \/ /\ ~IsNone(GcpToDt(item.begin))
       /\ LET begin == Val(GcpToDt(item.begin))
              finish == OrDt(GcpToDt(item.end), GcpToDt(item.most_recent_update))
          IN  ClampRaises(begin, Val(OrDt(finish, Some(begin))), s, e)

GcpIncidentId(item, begin) ==
    LET inc_id == OrStr(item.number, OrStr(item.id, item.external_desc)) IN
    IF inc_id # <<>> THEN inc_id ELSE <<"gcp-">> \o IsoFormat(begin)

\* lines 70-98 for one item: the incidents list after it
GcpEmit(incs, item, s, e) ==
    IF IsNone(GcpToDt(item.begin)) THEN incs
    ELSE
      LET begin == Val(GcpToDt(item.begin))
          finish == OrDt(GcpToDt(item.end), GcpToDt(item.most_recent_update))
          c == ClampRange(begin, Val(OrDt(finish, Some(begin))), s, e)
      IN  IF IsNone(c) THEN incs
          ELSE Append(incs, Incident("GCP", GcpIncidentId(item, begin),
                                     OrStr(item.title, item.service_name),
                                     Val(c).lo, Val(c).hi,
                                     OrStr(item.severity, item.impact), item.uri))

----------------------------------------------------------------------------
(* src/sources/cloudflare.py *)

\* _to_dt: as in gcp.py
CfToDt(x) == IF x.kind = "none" THEN None ELSE Some(Naive(DateParse(x).t))

CfIdents == {<<>>, <<"c1">>, <<"c2">>}
CfItems ==
    [id : CfIdents, name : {<<"outage">>}, shortlink : {<<>>}, url : {<<"u">>},
     impact : {<<"minor">>},
     created_at : RawTs, resolved_at : RawTs, updated_at : RawTs]

\* lines 75-77 convert all three timestamps before any test
CfItemRaises(item, s, e) ==
    \/ ParseRaises(item.created_at)
    \/ ParseRaises(item.resolved_at)
    \/ ParseRaises(item.updated_at)
    \/ /\ ~IsNone(CfToDt(item.created_at))
       /\ LET created == CfToDt(item.created_at)
              inc_e == OrDt(CfToDt(item.resolved_at), OrDt(CfToDt(item.updated_at), created))
          IN  ClampRaises(Val(created), Val(inc_e), s, e)

\* lines 70-100 for one item: the incidents list after it
CfEmit(incs, item, s, e) ==
    IF IsNone(CfToDt(item.created_at)) THEN incs
    ELSE
      LET created == CfToDt(item.created_at)
          inc_e == OrDt(CfToDt(item.resolved_at), OrDt(CfToDt(item.updated_at), created))
          c == ClampRange(Val(created), Val(inc_e), s, e)
      IN  IF IsNone(c) THEN incs
          ELSE Append(incs, Incident("Cloudflare", item.id, item.name,
                                     Val(c).lo, Val(c).hi, item.impact,
                                     OrStr(item.shortlink, item.url)))

----------------------------------------------------------------------------
(* Parsed JSON: a tagged value. A list holds its items in vals; a dict holds  *)
(* its keys, in document order, in keys and their values in vals; a string    *)
(* holds its characters in vals.                                              *)

JNull == [tag |-> "null", keys |-> <<>>, vals |-> <<>>]
JStr(chars) == [tag |-> "str", keys |-> <<>>, vals |-> chars]
JList(items) == [tag |-> "list", keys |-> <<>>, vals |-> items]
JDict(ks, vs) == [tag |-> "dict", keys |-> ks, vals |-> vs]

IsList(x) == x.tag = "list"
IsDict(x) == x.tag = "dict"
Has(d, k) == \E i \in 1..Len(d.keys) : d.keys[i] = k
\* dict.get(k): None when the key is absent
Get(d, k) ==
    IF Has(d, k) THEN d.vals[CHOOSE i \in 1..Len(d.keys) : d.keys[i] = k] ELSE JNull

\* str.isdigit() over the keys a payload can hold
DigitKeys == {ToString(n) : n \in 0..9}
IsDigit(k) == k \in DigitKeys

\* the characters of the model, in code point order
CodePoints == <<" ", ",", "0", "1", "2", "3", "4", "5", "6", "7", "8", "9", "n", "x">>
Ord(c) == CHOOSE i \in 1..Len(CodePoints) : CodePoints[i] = c

\* a <= b for Python str: lexicographic by code point
RECURSIVE StrLeq(_, _)
StrLeq(a, b) ==
    IF a = <<>> THEN TRUE
    ELSE IF b = <<>> THEN FALSE
    ELSE IF Head(a) = Head(b) THEN StrLeq(Tail(a), Tail(b))
    ELSE Ord(Head(a)) < Ord(Head(b))

Digits == {"0", "1", "2", "3", "4", "5", "6", "7", "8", "9"}
DigitVal(c) == CHOOSE n \in 0..9 : ToString(n) = c
AllDigits(chars) == chars # <<>> /\ \A i \in 1..Len(chars) : chars[i] \in Digits
RECURSIVE Decimal(_)
Decimal(chars) ==
    IF chars = <<>> THEN 0
    ELSE 10 * Decimal(SubSeq(chars, 1, Len(chars) - 1)) + DigitVal(chars[Len(chars)])

\* str.replace(c, '')
RECURSIVE Remove(_, _)
Remove(chars, c) ==
    IF chars = <<>> THEN <<>>
    ELSE IF Head(chars) = c THEN Remove(Tail(chars), c)
    ELSE <<Head(chars)>> \o Remove(Tail(chars), c)

----------------------------------------------------------------------------
(* src/sources/dshield.py *)

\* the entry objects of a payload: "date" is a day of the range written as its
\* number, or a string pandas cannot read, or absent; "sources" is a count
\* with or without thousands separators, or no number, or absent
DayStr(d) == <<ToString(d)>>
Days == 0..MaxDay
DateStrs == {DayStr(d) : d \in Days} \cup {<<"x">>}
CountStrs == {<<"1", ",", "2">>, <<"n">>}
EntryOf(date, count) ==
    JDict((IF date = None THEN <<>> ELSE <<"date">>) \o
          (IF count = None THEN <<>> ELSE <<"sources">>),
          (IF date = None THEN <<>> ELSE <<JStr(Val(date))>>) \o
          (IF count = None THEN <<>> ELSE <<JStr(Val(count))>>))
Entries ==
    {EntryOf(d, c) : d \in {None} \cup {Some(x) : x \in DateStrs},
                     c \in {None} \cup {Some(x) : x \in CountStrs}}

\* _as_list
AsList(x) ==
    IF IsList(x) THEN SelectSeq(x.vals, IsDict)
    ELSE IF IsDict(x) THEN <<x>>
    ELSE <<>>

\* _sort_key: str(d.get('date', ''))
SortKey(d) ==
    IF ~Has(d, "date") THEN <<>>
    ELSE IF Get(d, "date").tag = "str" THEN Get(d, "date").vals
    ELSE <<"n", "x">>

\* sorted(numeric_entries, key=_sort_key) is stable
RECURSIVE InsertByKey(_, _)
InsertByKey(sorted, d) ==
    IF sorted = <<>> THEN <<d>>
    ELSE IF StrLeq(SortKey(sorted[Len(sorted)]), SortKey(d)) THEN Append(sorted, d)
         ELSE Append(InsertByKey(SubSeq(sorted, 1, Len(sorted) - 1), d),
                     sorted[Len(sorted)])

RECURSIVE SortedByKey(_)
SortedByKey(ds) ==
    IF ds = <<>> THEN <<>>
    ELSE InsertByKey(SortedByKey(SubSeq(ds, 1, Len(ds) - 1)), ds[Len(ds)])

NumericUnsorted(p) ==
    LET RECURSIVE Collect(_)
        Collect(i) ==
            IF i > Len(p.keys) THEN <<>>
            ELSE (IF IsDigit(p.keys[i]) /\ IsDict(p.vals[i]) THEN <<p.vals[i]>> ELSE <<>>)
                 \o Collect(i + 1)
    IN  Collect(1)

\* lines 168-178: the values under all-digit keys, in document order, sorted
NumericEntries(p) == SortedByKey(NumericUnsorted(p))

\* the first non-empty list of a sequence of lists, <<>> when there is none
RECURSIVE FirstNonEmpty(_)
FirstNonEmpty(ls) ==
    IF ls = <<>> THEN <<>>
    ELSE IF Head(ls) # <<>> THEN Head(ls)
    ELSE FirstNonEmpty(Tail(ls))

\* lines 149-157: porthistory is a dict
FromPorthistoryDict(ph) ==
    FirstNonEmpty(<<AsList(Get(ph, "portinfo")), AsList(Get(ph, "data")),
                    AsList(Get(ph, "history")), AsList(Get(ph, "timeseries")),
                    AsList(Get(ph, "series"))>>)

\* lines 160-165: porthistory is a list
FromPorthistoryList(ph) ==
    LET RECURSIVE Scan(_)
        Scan(i) ==
            IF i > Len(ph.vals) THEN <<>>
            ELSE IF IsDict(ph.vals[i]) /\ AsList(Get(ph.vals[i], "portinfo")) # <<>>
                 THEN AsList(Get(ph.vals[i], "portinfo"))
                 ELSE Scan(i + 1)
    IN  Scan(1)

ExtractNumericFirst(p) ==
    IF IsList(p) THEN SelectSeq(p.vals, IsDict)
    ELSE IF ~IsDict(p) THEN <<>>
    ELSE
      LET ph == Get(p, "porthistory") IN
      FirstNonEmpty(<<NumericEntries(p),
                      IF Has(p, "portinfo") THEN AsList(Get(p, "portinfo")) ELSE <<>>,
                      IF IsDict(ph) THEN FromPorthistoryDict(ph) ELSE <<>>,
                      IF IsList(ph) THEN FromPorthistoryList(ph) ELSE <<>>>>)

\* DshieldClient._extract_portinfo_list
ExtractPortinfoList(p) ==
    IF IsList(p) THEN SelectSeq(p.vals, IsDict)
    ELSE IF ~IsDict(p) THEN <<>>
    ELSE
      LET ph == Get(p, "porthistory") IN
      FirstNonEmpty(<<IF Has(p, "portinfo") THEN AsList(Get(p, "portinfo")) ELSE <<>>,
                      IF IsDict(ph) THEN FromPorthistoryDict(ph) ELSE <<>>,
                      IF IsList(ph) THEN FromPorthistoryList(ph) ELSE <<>>,
                      NumericEntries(p)>>)

\* the four documented shapes around a sequence of entry objects
Shapes == {"list", "portinfo", "porthistory", "numeric"}
Wrapped(sh, es) ==
    CASE sh = "list" -> JList(es)
      [] sh = "portinfo" -> JDict(<<"portinfo">>, <<JList(es)>>)
      [] sh = "porthistory" ->
            JDict(<<"porthistory">>, <<JDict(<<"portinfo">>, <<JList(es)>>)>>)
      [] sh = "numeric" -> JDict([i \in 1..Len(es) |-> ToString(i - 1)], es)

SeqsUpTo(S, n) == UNION {[1..k -> S] : k \in 0..n}

----------------------------------------------------------------------------
(* src/sources/dshield.py: fetch_port_history *)

\* line 57
Allowed == {"records", "sources", "targets", "tcp", "udp"}

MetricAllowedAny(m) == TRUE

\* line 58
MetricAllowed(m) == m \in Allowed

\* lines 87-89: `if not d: continue` skips an absent, null or empty date
HasDate(item) == Get(item, "date").tag = "str" /\ Get(item, "date").vals # <<>>

\* pd.to_datetime(d) raises on a string that is no date; a date reads as its day
DateReadable(item) == AllDigits(Get(item, "date").vals)
ToDatetime(item) == Decimal(Get(item, "date").vals)

\* lines 90-94: int(str(raw).replace(',', '').strip()), 0 when int raises;
\* item.get(metric, 0) is 0 when the entry has no such field
IntOrZero(item, m) ==
    IF Get(item, m).tag # "str" THEN 0
    ELSE LET digits == Strip(Remove(Get(item, m).vals, ",")) IN
         IF AllDigits(digits) THEN Decimal(digits) ELSE 0

\* line 95 raises for some entry
RowsRaise(pinfo) ==
    \E i \in 1..Len(pinfo) : HasDate(pinfo[i]) /\ ~DateReadable(pinfo[i])

\* lines 85-95
RECURSIVE Rows(_, _, _)
Rows(pinfo, m, port) ==
    IF pinfo = <<>> THEN <<>>
    ELSE Rows(SubSeq(pinfo, 1, Len(pinfo) - 1), m, port) \o
         (IF HasDate(pinfo[Len(pinfo)])
          THEN <<[date |-> ToDatetime(pinfo[Len(pinfo)]),
                  value |-> IntOrZero(pinfo[Len(pinfo)], m), port |-> port]>>
          ELSE <<>>)

\* line 113: df.sort_values('date'), rows of one date kept in their order
RECURSIVE InsertByDate(_, _)
InsertByDate(sorted, r) ==
    IF sorted = <<>> THEN <<r>>
    ELSE IF sorted[Len(sorted)].date <= r.date THEN Append(sorted, r)
         ELSE Append(InsertByDate(SubSeq(sorted, 1, Len(sorted) - 1), r),
                     sorted[Len(sorted)])

RECURSIVE SortedByDate(_)
SortedByDate(rows) ==
    IF rows = <<>> THEN <<>>
    ELSE InsertByDate(SortedByDate(SubSeq(rows, 1, Len(rows) - 1)), rows[Len(rows)])

\* lines 85-114: the frame fetch_port_history returns for a resolved list
PortFrame(pinfo, m, port) == SortedByDate(Rows(pinfo, m, port))

\* lines 69-114 on one payload: whether line 95 raises, and the frame returned
\* when it does not
FetchOutcome(p, m, port) ==
    LET pinfo == ExtractPortinfoList(p) IN
    IF RowsRaise(pinfo) THEN [raises |-> TRUE, frame |-> <<>>]
    ELSE [raises |-> FALSE, frame |-> PortFrame(pinfo, m, port)]

\* the payloads the API may answer with
Payloads == {Wrapped(sh, es) : sh \in Shapes, es \in SeqsUpTo(Entries, MaxEntries)}

----------------------------------------------------------------------------
(* src/processing.py *)

\* 'AWS' < 'Cloudflare' < 'GCP' as Python orders str
ProviderRank(p) == CASE p = "AWS" -> 1 [] p = "Cloudflare" -> 2 [] p = "GCP" -> 3

RowLeq(a, b) ==
    \/ a.start.t < b.start.t
    \/ a.start.t = b.start.t /\ ProviderRank(a.provider) <= ProviderRank(b.provider)

\* df.sort_values(['start', 'provider']): rows that tie keep their order
RECURSIVE InsertRow(_, _)
InsertRow(sorted, r) ==
    IF sorted = <<>> THEN <<r>>
    ELSE IF RowLeq(sorted[Len(sorted)], r) THEN Append(sorted, r)
         ELSE Append(InsertRow(SubSeq(sorted, 1, Len(sorted) - 1), r),
                     sorted[Len(sorted)])

RECURSIVE SortedRows(_)
SortedRows(rows) ==
    IF rows = <<>> THEN <<>>
    ELSE InsertRow(SortedRows(SubSeq(rows, 1, Len(rows) - 1)), rows[Len(rows)])

\* incidents_to_df
IncidentsToDf(incs) ==
    SortedRows([i \in 1..Len(incs) |->
        [provider |-> incs[i].provider, incident_id |-> incs[i].incident_id,
         title |-> incs[i].title, start |-> incs[i].start, end |-> incs[i].end,
         duration_minutes |-> (incs[i].end.t - incs[i].start.t) * 1440,
         severity |-> incs[i].severity, url |-> incs[i].url]])

\* pd.concat(frames, ignore_index=True)
RECURSIVE Concat(_)
Concat(fs) == IF fs = <<>> THEN <<>> ELSE Head(fs) \o Concat(Tail(fs))

RECURSIVE SumValues(_)
SumValues(rows) ==
    IF rows = <<>> THEN 0 ELSE Head(rows).value + SumValues(Tail(rows))

OnDate(rows, d) == SelectSeq(rows, LAMBDA r : r.date = d)

GroupFirst(all_df, d) == OnDate(all_df, d)[1].value

\* all_df.groupby('date')['value'].sum(): the total of one date of all_df
GroupSum(all_df, d) == SumValues(OnDate(all_df, d))

ReindexNoFill(all_df, sd, ed) ==
    LET have == {d \in sd..ed : OnDate(all_df, d) # <<>>} IN
    [i \in 1..Cardinality(have) |->
        LET d == CHOOSE x \in have : Cardinality({y \in have : y < x}) = i - 1 IN
        [date |-> d, new_devices |-> GroupSum(all_df, d)]]

\* lines 79-84: one row per day of pd.date_range(start_date, end_date), the
\* date's total where groupby has one and 0 elsewhere
Reindex(all_df, sd, ed) ==
    [i \in 1..(IF ed >= sd THEN ed - sd + 1 ELSE 0) |->
        [date |-> sd + i - 1,
         new_devices |-> IF OnDate(all_df, sd + i - 1) # <<>>
                         THEN GroupSum(all_df, sd + i - 1) ELSE 0]]

\* datetime.date(): the query window of main falls on midnight
DateOf(d) == d.t

\* lines 72-84 of build_botnet_proxy_series
BuildSeries(fs, s, e) ==
    IF fs = <<>> THEN <<>> ELSE Reindex(Concat(fs), DateOf(s), DateOf(e))

----------------------------------------------------------------------------
(* fetch_aws_incidents as one function of the feed *)

\* lines 66-74 over a whole feed
RECURSIVE AwsGroupedOf(_)
AwsGroupedOf(f) ==
    IF f = <<>> THEN <<>>
    ELSE LET entry == f[Len(f)]
             g == AwsGroupedOf(SubSeq(f, 1, Len(f) - 1))
         IN  IF entry.guid = <<>> \/ IsNone(AwsToDt(entry.published)) THEN g
             ELSE GroupAppend(g, AwsIncidentKeyFromGuid(entry.guid),
                              [published |-> Val(AwsToDt(entry.published)),
                               title |-> entry.title, guid |-> entry.guid])

\* lines 77-108 over all groups
RECURSIVE AwsIncidentsOf(_, _, _)
AwsIncidentsOf(g, s, e) ==
    IF g = <<>> THEN <<>>
    ELSE AwsEmit(AwsIncidentsOf(SubSeq(g, 1, Len(g) - 1), s, e), g[Len(g)], s, e)

\* whether fetch_aws_incidents raises on the feed
AwsFetchRaises(f, s, e) ==
    \/ \E i \in 1..Len(f) : ParseRaises(f[i].published)
    \/ LET g == AwsGroupedOf(f) IN \E i \in 1..Len(g) : AwsGroupRaises(g[i], s, e)

----------------------------------------------------------------------------
(* What each part of the program holds while it does not run *)

ClampIdle ==
    /\ inc_start = Naive(0) /\ inc_end = Naive(0) /\ clamped = None /\ cpc = "idle"

AdaptersIdle ==
    /\ pc = "idle" /\ feed = <<>> /\ grouped = <<>> /\ gi = 0
    /\ incidents = <<>> /\ nitems = 0

ShapeIdle ==
    /\ entries = <<>> /\ shape = "list" /\ payload = JNull /\ xpc = "idle"

SeriesIdle ==
    /\ ports = <<>> /\ metric = "sources" /\ np = 0 /\ frames = <<>>
    /\ requests = 0 /\ daily = <<>> /\ spc = "idle"

MainIdle ==
    /\ mpc = "idle" /\ aws = <<>> /\ gcp = <<>> /\ cloudflare = <<>>
    /\ outages_df = <<>> /\ csv_written = FALSE /\ plot_written = FALSE

----------------------------------------------------------------------------
(* _clamp_range, one call *)

CallClamp ==
    /\ cpc = "call"
    /\ IF ClampRaises(inc_start, inc_end, start, end)
       THEN cpc' = "TypeError" /\ clamped' = None
       ELSE cpc' = "returned" /\ clamped' = ClampRange(inc_start, inc_end, start, end)
    /\ UNCHANGED <<start, end, inc_start, inc_end>>
    /\ UNCHANGED <<adapterVars, shapeVars, portinfo, seriesVars, mainVars>>

----------------------------------------------------------------------------
(* The adapters, step by step. E is the set the next entry or item is drawn  *)
(* from.                                                                     *)

AdapterRaised == {"ParserError", "TypeError", "HTTPError"}

\* fetch_aws_incidents, lines 66-74: one feed entry
AwsEntry(E) ==
    /\ pc = "aws_entries"
    /\ Len(feed) < MaxFeed
    /\ \E entry \in E :
        /\ feed' = Append(feed, entry)
        /\ IF ParseRaises(entry.published)
           THEN pc' = "ParserError" /\ UNCHANGED grouped
           ELSE /\ pc' = pc
                /\ grouped' =
                     IF entry.guid = <<>> \/ IsNone(AwsToDt(entry.published))
                     THEN grouped
                     ELSE GroupAppend(grouped, AwsIncidentKeyFromGuid(entry.guid),
                                      [published |-> Val(AwsToDt(entry.published)),
                                       title |-> entry.title, guid |-> entry.guid])
    /\ UNCHANGED <<start, end, gi, incidents, nitems>>
    /\ UNCHANGED <<clampVars, shapeVars, portinfo, seriesVars, mainVars>>

\* the feed has no more entries
AwsFeedEnd ==
    /\ pc = "aws_entries"
    /\ pc' = "aws_groups"
    /\ UNCHANGED <<start, end, feed, grouped, gi, incidents, nitems>>
    /\ UNCHANGED <<clampVars, shapeVars, portinfo, seriesVars, mainVars>>

\* fetch_aws_incidents, lines 77-108: one group
AwsGroup ==
    /\ pc = "aws_groups"
    /\ gi < Len(grouped)
    /\ gi' = gi + 1
    /\ IF AwsGroupRaises(grouped[gi + 1], start, end)
       THEN pc' = "TypeError" /\ UNCHANGED incidents
       ELSE pc' = pc /\ incidents' = AwsEmit(incidents, grouped[gi + 1], start, end)
    /\ UNCHANGED <<start, end, feed, grouped, nitems>>
    /\ UNCHANGED <<clampVars, shapeVars, portinfo, seriesVars, mainVars>>

\* fetch_aws_incidents, line 110
AwsReturn ==
    /\ pc = "aws_groups"
    /\ gi = Len(grouped)
    /\ pc' = "aws_returned"
    /\ UNCHANGED <<start, end, feed, grouped, gi, incidents, nitems>>
    /\ UNCHANGED <<clampVars, shapeVars, portinfo, seriesVars, mainVars>>

\* fetch_gcp_incidents, lines 65-67: the request; raise_for_status raises on
\* an HTTP error status
GcpRequest ==
    /\ pc = "gcp_request"
    /\ pc' \in {"gcp_items", "HTTPError"}
    /\ UNCHANGED <<start, end, feed, grouped, gi, incidents, nitems>>
    /\ UNCHANGED <<clampVars, shapeVars, portinfo, seriesVars, mainVars>>

\* fetch_gcp_incidents, lines 70-98: one item
GcpItem(E) ==
    /\ pc = "gcp_items"
    /\ nitems < MaxItems
    /\ nitems' = nitems + 1
    /\ \E item \in E :
        IF GcpItemRaises(item, start, end)
        THEN pc' = "ParserError" /\ UNCHANGED incidents
        ELSE pc' = pc /\ incidents' = GcpEmit(incidents, item, start, end)
    /\ UNCHANGED <<start, end, feed, grouped, gi>>
    /\ UNCHANGED <<clampVars, shapeVars, portinfo, seriesVars, mainVars>>

\* fetch_gcp_incidents, line 100
GcpReturn ==
    /\ pc = "gcp_items"
    /\ pc' = "gcp_returned"
    /\ UNCHANGED <<start, end, feed, grouped, gi, incidents, nitems>>
    /\ UNCHANGED <<clampVars, shapeVars, portinfo, seriesVars, mainVars>>

\* fetch_cloudflare_incidents, lines 65-67
CfRequest ==
    /\ pc = "cf_request"
    /\ pc' \in {"cf_items", "HTTPError"}
    /\ UNCHANGED <<start, end, feed, grouped, gi, incidents, nitems>>
    /\ UNCHANGED <<clampVars, shapeVars, portinfo, seriesVars, mainVars>>

\* fetch_cloudflare_incidents, lines 70-100: one item
CfItem(E) ==
    /\ pc = "cf_items"
    /\ nitems < MaxItems
    /\ nitems' = nitems + 1
    /\ \E item \in E :
        IF CfItemRaises(item, start, end)
        THEN pc' = "ParserError" /\ UNCHANGED incidents
        ELSE pc' = pc /\ incidents' = CfEmit(incidents, item, start, end)
    /\ UNCHANGED <<start, end, feed, grouped, gi>>
    /\ UNCHANGED <<clampVars, shapeVars, portinfo, seriesVars, mainVars>>

\* fetch_cloudflare_incidents, line 102
CfReturn ==
    /\ pc = "cf_items"
    /\ pc' = "cf_returned"
    /\ UNCHANGED <<start, end, feed, grouped, gi, incidents, nitems>>
    /\ UNCHANGED <<clampVars, shapeVars, portinfo, seriesVars, mainVars>>

----------------------------------------------------------------------------
(* _extract_portinfo_list on a sequence of entry objects in one shape *)

\* the API answers with the entries in one of its shapes
Respond ==
    /\ xpc = "respond"
    /\ payload' = Wrapped(shape, entries)
    /\ xpc' = "resolve"
    /\ UNCHANGED <<start, end, entries, shape, portinfo>>
    /\ UNCHANGED <<clampVars, adapterVars, seriesVars, mainVars>>

Resolve ==
    /\ xpc = "resolve"
    /\ portinfo' = ExtractPortinfoList(payload)
    /\ xpc' = "resolved"
    /\ UNCHANGED <<start, end, entries, shape, payload>>
    /\ UNCHANGED <<clampVars, adapterVars, seriesVars, mainVars>>

----------------------------------------------------------------------------
(* build_botnet_proxy_series and the fetch_port_history calls of its loop.   *)
(* P is the set the API's answer is drawn from.                              *)

SeriesRaised == {"ValueError", "HTTPError", "DateParseError"}

\* fetch_port_history, lines 57-59, for the next port of the loop of
\* build_botnet_proxy_series (lines 67-68)
FphValidate ==
    /\ spc = "loop"
    /\ np < Len(ports)
    /\ spc' = IF MetricAllowed(metric) THEN "request" ELSE "ValueError"
    /\ UNCHANGED <<start, end, ports, metric, np, frames, requests, daily, portinfo>>
    /\ UNCHANGED <<clampVars, adapterVars, shapeVars, mainVars>>

\* fetch_port_history, lines 65-67: the request is sent and the API answers
\* with an error status
FphHttpError ==
    /\ spc = "request"
    /\ requests' = requests + 1
    /\ spc' = "HTTPError"
    /\ UNCHANGED <<start, end, ports, metric, np, frames, daily, portinfo>>
    /\ UNCHANGED <<clampVars, adapterVars, shapeVars, mainVars>>

\* fetch_port_history, lines 65-114, and lines 69-70 of the caller: the request
\* is sent, the API answers with a payload, the frame is built and kept when it
\* has rows. O[m, port] holds the outcomes of the payloads the answer is drawn from
FphResponse(O) ==
    /\ spc = "request"
    /\ requests' = requests + 1
    /\ \E o \in O[metric, ports[np + 1]] :
        IF o.raises
        THEN spc' = "DateParseError" /\ UNCHANGED <<np, frames>>
        ELSE /\ spc' = "loop"
             /\ np' = np + 1
             /\ frames' = IF o.frame # <<>> THEN Append(frames, o.frame) ELSE frames
    /\ UNCHANGED <<start, end, ports, metric, daily, portinfo>>
    /\ UNCHANGED <<clampVars, adapterVars, shapeVars, mainVars>>

\* build_botnet_proxy_series, lines 72-84
BuildReturn ==
    /\ spc = "loop"
    /\ np = Len(ports)
    /\ daily' = BuildSeries(frames, start, end)
    /\ spc' = "returned"
    /\ UNCHANGED <<start, end, ports, metric, np, frames, requests, portinfo>>
    /\ UNCHANGED <<clampVars, adapterVars, shapeVars, mainVars>>

----------------------------------------------------------------------------
(* main *)

\* line 68 returned
MainAws ==
    /\ mpc = "aws" /\ pc = "aws_returned"
    /\ aws' = incidents
    /\ mpc' = "gcp"
    /\ pc' = "gcp_request"
    /\ feed' = <<>> /\ grouped' = <<>> /\ gi' = 0 /\ incidents' = <<>>
    /\ UNCHANGED <<start, end, nitems, gcp, cloudflare, outages_df, csv_written, plot_written>>
    /\ UNCHANGED <<clampVars, shapeVars, portinfo, seriesVars>>

\* line 69 returned
MainGcp ==
    /\ mpc = "gcp" /\ pc = "gcp_returned"
    /\ gcp' = incidents
    /\ mpc' = "cloudflare"
    /\ pc' = "cf_request"
    /\ incidents' = <<>> /\ nitems' = 0
    /\ UNCHANGED <<start, end, feed, grouped, gi, aws, cloudflare, outages_df,
                   csv_written, plot_written>>
    /\ UNCHANGED <<clampVars, shapeVars, portinfo, seriesVars>>

\* line 70 returned
MainCloudflare ==
    /\ mpc = "cloudflare" /\ pc = "cf_returned"
    /\ cloudflare' = incidents
    /\ mpc' = "to_csv"
    /\ pc' = "idle"
    /\ incidents' = <<>> /\ nitems' = 0
    /\ UNCHANGED <<start, end, feed, grouped, gi, aws, gcp, outages_df,
                   csv_written, plot_written>>
    /\ UNCHANGED <<clampVars, shapeVars, portinfo, seriesVars>>

\* lines 79-93: the table is built and written, then the series is begun
MainToCsv ==
    /\ mpc = "to_csv"
    /\ outages_df' = IncidentsToDf(aws \o gcp \o cloudflare)
    /\ csv_written' = TRUE
    /\ mpc' = "botnet"
    /\ spc' = "loop"
    /\ UNCHANGED <<start, end, aws, gcp, cloudflare, plot_written>>
    /\ UNCHANGED <<ports, metric, np, frames, requests, daily>>
    /\ UNCHANGED <<clampVars, adapterVars, shapeVars, portinfo>>

\* line 98: plot_overlay saves the figure
MainPlot ==
    /\ mpc = "botnet" /\ spc = "returned"
    /\ plot_written' = TRUE
    /\ mpc' = "done"
    /\ UNCHANGED <<start, end, aws, gcp, cloudflare, outages_df, csv_written>>
    /\ UNCHANGED <<clampVars, adapterVars, shapeVars, portinfo, seriesVars>>

\* main catches nothing: an exception of a callee ends the run
MainAbort ==
    /\ mpc \in {"aws", "gcp", "cloudflare", "botnet"}
    /\ pc \in AdapterRaised \/ spc \in SeriesRaised
    /\ mpc' = "aborted"
    /\ UNCHANGED <<start, end, aws, gcp, cloudflare, outages_df, csv_written, plot_written>>
    /\ UNCHANGED <<clampVars, adapterVars, shapeVars, portinfo, seriesVars>>

----------------------------------------------------------------------------
(* Specifications *)

PortSet == {23, 2323}
Metrics == {"sources", "tcp", "bogus"}
OutcomesOf(P) == [m \in Metrics, port \in PortSet |-> {FetchOutcome(p, m, port) : p \in P}]

\* _clamp_range alone: any four datetimes, one call
InitClamp ==
    /\ start \in Datetimes /\ end \in Datetimes
    /\ inc_start \in Datetimes /\ inc_end \in Datetimes
    /\ clamped = None /\ cpc = "call"
    /\ AdaptersIdle /\ ShapeIdle /\ portinfo = <<>> /\ SeriesIdle /\ MainIdle

NextClamp == CallClamp

SpecClamp == InitClamp /\ [][NextClamp]_vars

\* one adapter called with a query window, as main calls it (naive datetimes)
InitAdapters ==
    /\ start \in NaiveTimes /\ end \in NaiveTimes
    /\ pc \in {"aws_entries", "gcp_request", "cf_request"}
    /\ feed = <<>> /\ grouped = <<>> /\ gi = 0 /\ incidents = <<>> /\ nitems = 0
    /\ ClampIdle /\ ShapeIdle /\ portinfo = <<>> /\ SeriesIdle /\ MainIdle

NextAdapters ==
    \/ AwsEntry(AwsEntries) \/ AwsFeedEnd \/ AwsGroup \/ AwsReturn
    \/ GcpRequest \/ GcpItem(GcpItems) \/ GcpReturn
    \/ CfRequest \/ CfItem(CfItems) \/ CfReturn

SpecAdapters == InitAdapters /\ [][NextAdapters]_vars

\* fetch_aws_incidents alone, on a feed of updates of two incident keys: an
\* update's timestamp is absent, or reads a day without an offset, or (one
\* value) carries an offset
SpanEntries ==
    {e \in AwsEntries :
        /\ e.guid \in {<<"a", "#", "1">>, <<"2">>}
        /\ e.published \in {NoTs, OkTs(0, TRUE)} \cup {OkTs(w, FALSE) : w \in Times}}

InitAws ==
    /\ start \in NaiveTimes /\ end \in NaiveTimes
    /\ pc = "aws_entries"
    /\ feed = <<>> /\ grouped = <<>> /\ gi = 0 /\ incidents = <<>> /\ nitems = 0
    /\ ClampIdle /\ ShapeIdle /\ portinfo = <<>> /\ SeriesIdle /\ MainIdle

NextAws == AwsEntry(SpanEntries) \/ AwsFeedEnd \/ AwsGroup \/ AwsReturn

SpecAws == InitAws /\ [][NextAws]_vars

\* _extract_portinfo_list alone: a sequence of entry objects, wrapped, resolved
InitShape ==
    /\ start = Naive(0) /\ end = Naive(0)
    /\ entries \in SeqsUpTo(Entries, MaxLen)
    /\ shape \in Shapes
    /\ payload = JNull /\ portinfo = <<>> /\ xpc = "respond"
    /\ ClampIdle /\ AdaptersIdle /\ SeriesIdle /\ MainIdle

NextShape == Respond \/ Resolve

SpecShape == InitShape /\ [][NextShape]_vars

\* _extract_portinfo_list on payloads that hold several shapes at once. Each
\* place of a payload holds an entry object of its own day, so that the result
\* tells where it was taken from
EntryOn(d) == EntryOf(Some(<<ToString(d)>>), None)
NoDict == JStr(<<"x">>)
\* payload["portinfo"]: None is an absent key
PortinfoVals ==
    {None} \cup {Some(v) : v \in {JNull, JList(<<>>), JList(<<NoDict>>),
                                  JList(<<EntryOn(1), NoDict>>), EntryOn(1)}}
\* payload["porthistory"] as a dict of the field names the code looks up
PorthistoryDicts ==
    {JDict((IF pi = None THEN <<>> ELSE <<"portinfo">>) \o
           (IF sr = None THEN <<>> ELSE <<"series">>) \o
           (IF da = None THEN <<>> ELSE <<"data">>),
           pi \o sr \o da) :
        pi \in {None, Some(JList(<<>>)), Some(JList(<<EntryOn(2)>>))},
        sr \in {None, Some(EntryOn(3))},
        da \in {None, Some(JList(<<EntryOn(4)>>))}}
\* payload["porthistory"] as a list
PorthistoryLists ==
    {JList(<<>>),
     JList(<<NoDict, JDict(<<"portinfo">>, <<JList(<<>>)>>),
             JDict(<<"portinfo">>, <<JList(<<EntryOn(5)>>)>>),
             JDict(<<"portinfo">>, <<JList(<<EntryOn(6)>>)>>)>>),
     JList(<<JDict(<<"data">>, <<JList(<<EntryOn(5)>>)>>)>>)}
PorthistoryVals ==
    {None, Some(NoDict)} \cup {Some(v) : v \in PorthistoryDicts \cup PorthistoryLists}
\* the other keys of the payload, in document order, with their values
OtherKeys ==
    {[keys |-> <<>>, vals |-> <<>>],
     [keys |-> <<"0">>, vals |-> <<NoDict>>],
     [keys |-> <<"x", "0">>, vals |-> <<EntryOn(7), EntryOn(8)>>],
     [keys |-> <<"0", "1">>, vals |-> <<EntryOn(9), EntryOn(8)>>]}
MixedPayloads ==
    {JNull, NoDict, JList(<<>>), JList(<<EntryOn(1), NoDict, EntryOn(0)>>)} \cup
    {JDict((IF pi = None THEN <<>> ELSE <<"portinfo">>) \o
           (IF ph = None THEN <<>> ELSE <<"porthistory">>) \o ok.keys,
           pi \o ph \o ok.vals) :
        pi \in PortinfoVals, ph \in PorthistoryVals, ok \in OtherKeys}

InitResolver ==
    /\ start = Naive(0) /\ end = Naive(0)
    /\ entries = <<>> /\ shape = "list"
    /\ payload \in MixedPayloads /\ portinfo = <<>> /\ xpc = "resolve"
    /\ ClampIdle /\ AdaptersIdle /\ SeriesIdle /\ MainIdle

NextResolver == Resolve

SpecResolver == InitResolver /\ [][NextResolver]_vars

\* build_botnet_proxy_series alone: any window, ports and metric name
SeriesOutcomes == OutcomesOf(Payloads)

InitSeries ==
    /\ start \in {Naive(d) : d \in Days} /\ end \in {Naive(d) : d \in Days}
    /\ ports \in SeqsUpTo(PortSet, MaxPorts)
    /\ metric \in Metrics
    /\ np = 0 /\ frames = <<>> /\ requests = 0 /\ daily = <<>> /\ spc = "loop"
    /\ portinfo = <<>>
    /\ ClampIdle /\ AdaptersIdle /\ ShapeIdle /\ MainIdle

NextSeries == FphValidate \/ FphHttpError \/ FphResponse(SeriesOutcomes) \/ BuildReturn

SpecSeries == InitSeries /\ [][NextSeries]_vars

\* main: the arguments argparse lets through (one port or more, a metric of
\* its choices), and for each upstream a well-formed and a malformed answer
ArgMetrics == {"sources", "tcp"}
GoodTs == OkTs(0, FALSE)
MainAwsEntries ==
    {[guid |-> <<"a", "#", "1">>, title |-> <<"resolved">>, published |-> x] :
        x \in {GoodTs, BadTs}}
MainGcpItems ==
    {i \in GcpItems : /\ i.number = <<"7">> /\ i.id = <<>> /\ i.external_desc = <<>>
                      /\ i.begin \in {GoodTs, BadTs}
                      /\ i.end = NoTs /\ i.most_recent_update = NoTs}
MainCfItems ==
    {i \in CfItems : /\ i.id = <<"c1">>
                     /\ i.created_at \in {GoodTs, BadTs}
                     /\ i.resolved_at = NoTs /\ i.updated_at = NoTs}
MainPayloads ==
    {JList(<<>>)} \cup
    {Wrapped("numeric", <<EntryOf(Some(d), Some(<<"1", ",", "2">>))>>) :
        d \in {DayStr(0), <<"x">>}}

MainOutcomes == OutcomesOf(MainPayloads)

Init ==
    /\ start \in NaiveTimes /\ end \in NaiveTimes
    /\ ports \in SeqsUpTo(PortSet, MaxPorts) \ {<<>>}
    /\ metric \in ArgMetrics
    /\ np = 0 /\ frames = <<>> /\ requests = 0 /\ daily = <<>> /\ spc = "idle"
    /\ portinfo = <<>>
    /\ mpc = "aws" /\ pc = "aws_entries"
    /\ feed = <<>> /\ grouped = <<>> /\ gi = 0 /\ incidents = <<>> /\ nitems = 0
    /\ aws = <<>> /\ gcp = <<>> /\ cloudflare = <<>>
    /\ outages_df = <<>> /\ csv_written = FALSE /\ plot_written = FALSE
    /\ ClampIdle /\ ShapeIdle

Next ==
    \/ AwsEntry(MainAwsEntries) \/ AwsFeedEnd \/ AwsGroup \/ AwsReturn \/ MainAws
    \/ GcpRequest \/ GcpItem(MainGcpItems) \/ GcpReturn \/ MainGcp
    \/ CfRequest \/ CfItem(MainCfItems) \/ CfReturn \/ MainCloudflare
    \/ MainToCsv
    \/ FphValidate \/ FphHttpError \/ FphResponse(MainOutcomes) \/ BuildReturn
    \/ MainPlot
    \/ MainAbort

Spec == Init /\ [][Next]_vars

----------------------------------------------------------------------------
(* Claims *)

Returned == {"aws_returned", "gcp_returned", "cf_returned"}

\* C1: every Incident an adapter returns has start <= end, for every payload
\* and every query window with start <= end.
C1_StartNotAfterEnd ==
    (pc \in Returned /\ start.t <= end.t) =>
        \A i \in 1..Len(incidents) : incidents[i].start.t <= incidents[i].end.t

\* the call's arguments are two windows: four mutually comparable datetimes,
\* each window's start not after its end
Windows ==
    /\ Comparable(inc_start, inc_end)
    /\ Comparable(inc_start, start)
    /\ Comparable(start, end)
    /\ inc_start.t <= inc_end.t
    /\ start.t <= end.t

\* C2: for incident window [inc_start, inc_end] and query window [start, end],
\* _clamp_range returns None exactly when inc_end < start or inc_start > end;
\* otherwise it returns (max(inc_start, start), min(inc_end, end)), which lies
\* inside both windows and has lo <= hi.
C2_ClampContract ==
    (cpc # "call" /\ Windows) =>
        /\ cpc = "returned"
        /\ IsNone(clamped) <=> (inc_end.t < start.t \/ inc_start.t > end.t)
        /\ ~IsNone(clamped) =>
            /\ Val(clamped).lo.t = (IF inc_start.t >= start.t THEN inc_start.t ELSE start.t)
            /\ Val(clamped).hi.t = (IF inc_end.t <= end.t THEN inc_end.t ELSE end.t)
            /\ inc_start.t <= Val(clamped).lo.t /\ Val(clamped).hi.t <= inc_end.t
            /\ start.t <= Val(clamped).lo.t /\ Val(clamped).hi.t <= end.t
            /\ Val(clamped).lo.t <= Val(clamped).hi.t

\* a call on two windows that overlap, the incident window sticking out of the
\* query window on both sides
C2_Witness ==
    /\ cpc = "returned" /\ Windows /\ ~IsNone(clamped)
    /\ inc_start.t < start.t /\ end.t < inc_end.t

StepsOneDay(series) ==
    \A i \in 1..(Len(series) - 1) : series[i + 1].date = series[i].date + 1

\* C3 as claimed: the output of build_botnet_proxy_series always has length
\* (end.date() - start.date()).days + 1 with dates one day apart, whatever the
\* ports returned.
C3_Original ==
    spc = "returned" =>
        /\ Len(daily) = DateOf(end) - DateOf(start) + 1
        /\ StepsOneDay(daily)

\* C3 as amended: when some port returned records and start.date() <=
\* end.date(), the output has length (end.date() - start.date()).days + 1 with
\* dates one day apart; when every port returned no records the output is empty.
C3_SeriesLength ==
    spc = "returned" =>
        /\ (frames # <<>> /\ DateOf(start) <= DateOf(end)) =>
              /\ Len(daily) = DateOf(end) - DateOf(start) + 1
              /\ StepsOneDay(daily)
        /\ frames = <<>> => daily = <<>>

\* two days asked for, records on one of them only
C3_Witness ==
    /\ spc = "returned" /\ frames # <<>>
    /\ DateOf(start) < DateOf(end)
    /\ Len(daily) = 2
    /\ \E d \in DateOf(start)..DateOf(end) :
          \A f \in 1..Len(frames) : \A r \in 1..Len(frames[f]) : frames[f][r].date # d

\* the records all ports returned, as (frame, row) positions
Records == UNION {{<<f, r>> : r \in 1..Len(frames[f])} : f \in 1..Len(frames)}
RECURSIVE ValueSum(_)
ValueSum(S) ==
    IF S = {} THEN 0
    ELSE LET fr == CHOOSE x \in S : TRUE IN frames[fr[1]][fr[2]].value + ValueSum(S \ {fr})
RecordsOn(d) == {fr \in Records : frames[fr[1]][fr[2]].date = d}
RECURSIVE TotalSum(_)
TotalSum(series) ==
    IF series = <<>> THEN 0 ELSE Head(series).new_devices + TotalSum(Tail(series))

\* C4: when some port returned records, the series total of every day d of
\* [start.date(), end.date()] is the sum of value over all records of all ports
\* dated d (0 when there is none); so the totals add up to the sum of the
\* values dated within the range, and records dated outside add nothing.
C4_DailyTotals ==
    (spc = "returned" /\ frames # <<>>) =>
        /\ \A d \in DateOf(start)..DateOf(end) :
              \E i \in 1..Len(daily) :
                  daily[i].date = d /\ daily[i].new_devices = ValueSum(RecordsOn(d))
        /\ TotalSum(daily) =
              ValueSum({fr \in Records :
                  frames[fr[1]][fr[2]].date \in DateOf(start)..DateOf(end)})

\* two ports report on the same day, one day of the range has no record, and
\* a record lies outside the range
C4_Witness ==
    /\ spc = "returned" /\ Len(frames) = 2
    /\ \E d \in DateOf(start)..DateOf(end) :
          /\ Cardinality(RecordsOn(d)) = 2
          /\ \E i \in 1..Len(daily) : daily[i].date = d /\ daily[i].new_devices = 24
    /\ \E d \in DateOf(start)..DateOf(end) :
          /\ RecordsOn(d) = {}
          /\ \E i \in 1..Len(daily) : daily[i].date = d /\ daily[i].new_devices = 0

IsPermutationOf(a, b) ==
    /\ Len(a) = Len(b)
    /\ \E p \in Permutations(1..Len(a)) : \A i \in 1..Len(a) : a[i] = b[p[i]]
KeySorted(ds) == \A i \in 1..(Len(ds) - 1) : StrLeq(SortKey(ds[i]), SortKey(ds[i + 1]))

\* C5 as claimed: _extract_portinfo_list returns the same list, entries and
\* order, for a sequence of entry objects whichever of the four shapes wraps it.
C5_Original ==
    xpc = "resolved" => portinfo = ExtractPortinfoList(JList(entries))

\* C5 as amended: the four shapes give the same entries; the bare list, the
\* "portinfo" object and the "porthistory" object give them in the sequence's
\* order, the index-keyed object gives them sorted by str(date), which is the
\* sequence's order when the sequence is already sorted so.
C5_ShapeInvariance ==
    xpc = "resolved" =>
        /\ IsPermutationOf(portinfo, entries)
        /\ shape # "numeric" => portinfo = entries
        /\ shape = "numeric" => KeySorted(portinfo)
        /\ (shape = "numeric" /\ KeySorted(entries)) => portinfo = entries

\* an index-keyed object whose two entries come later date first
C5_Witness ==
    /\ xpc = "resolved" /\ shape = "numeric" /\ Len(entries) = 2
    /\ ~KeySorted(entries)
    /\ portinfo = <<entries[2], entries[1]>>

\* C6: a malformed entry (an unreadable date or timestamp among them) never
\* makes fetch_port_history or fetch_aws_incidents raise.
C6_MalformedEntrySkipped ==
    /\ spc # "DateParseError"
    /\ ~(pc = "ParserError" /\ feed # <<>>)

\* C7: fetch_aws_incidents followed by incidents_to_df gives the same table for
\* every order of the feed's entries.
C7_AwsOrderIndependent ==
    pc = "aws_returned" =>
        \A p \in Permutations(1..Len(feed)) :
            LET f == [i \in 1..Len(feed) |-> feed[p[i]]] IN
            /\ ~AwsFetchRaises(f, start, end)
            /\ IncidentsToDf(AwsIncidentsOf(AwsGroupedOf(f), start, end))
                 = IncidentsToDf(incidents)

\* C8: a run of main ends with both artifacts written or with neither.
C8_BothOrNeither ==
    mpc \in {"done", "aborted"} => (csv_written <=> plot_written)

Ended == spc \in {"returned"} \cup SeriesRaised

\* C9 as claimed: with an unsupported metric name build_botnet_proxy_series
\* ends in the invalid-argument error, whatever its ports list, and no HTTP
\* request is sent.
C9_Original ==
    metric \notin Allowed =>
        /\ requests = 0
        /\ Ended => spc = "ValueError"

\* C9 as amended: with an unsupported metric name no HTTP request is ever
\* sent, and over a ports list that is not empty the run ends in the
\* invalid-argument error (over an empty list nothing is fetched and the
\* empty series is returned).
C9_RejectedBeforeRequest ==
    metric \notin Allowed =>
        /\ requests = 0
        /\ spc # "request"
        /\ (Ended /\ ports # <<>>) => spc = "ValueError"
        /\ (Ended /\ ports = <<>>) => (spc = "returned" /\ daily = <<>>)

\* the error raised for the first of two ports
C9_Witness ==
    /\ metric \notin Allowed /\ spc = "ValueError" /\ Len(ports) = 2 /\ np = 0

\* C10: the incidents one adapter returns have pairwise different incident_id.
C10_IncidentIdUnique ==
    pc \in Returned =>
        \A i, j \in 1..Len(incidents) :
            i # j => incidents[i].incident_id # incidents[j].incident_id


\* C11: in all three adapters a timestamp that carries an offset is converted
\* to UTC and its offset dropped before it is used: every timestamp an adapter
\* holds or emits is naive, and no comparison with the (naive) query window
\* raises TypeError.
C11_UtcConversionUniform ==
    /\ \A i \in 1..Len(grouped) : \A j \in 1..Len(grouped[i].updates) :
          grouped[i].updates[j].published.tz = FALSE
    /\ \A i \in 1..Len(incidents) :
          incidents[i].start.tz = FALSE /\ incidents[i].end.tz = FALSE
    /\ pc # "TypeError"

\* the feed entries fetch_aws_incidents groups (a guid and a timestamp), the
\* incident keys among them, and the days of one key's updates
Usable == {i \in 1..Len(feed) : feed[i].guid # <<>> /\ feed[i].published.kind = "ok"}
KeyOf(i) == AwsIncidentKeyFromGuid(feed[i].guid)
UpdatesOf(key) == {i \in Usable : KeyOf(i) = key}
DayOf(i) == DateParse(feed[i].published).t
Earliest(key) == CHOOSE t \in {DayOf(i) : i \in UpdatesOf(key)} :
                    \A i \in UpdatesOf(key) : t <= DayOf(i)
Latest(key) == CHOOSE t \in {DayOf(i) : i \in UpdatesOf(key)} :
                  \A i \in UpdatesOf(key) : t >= DayOf(i)
EmittedFor(key) == {k \in 1..Len(incidents) : incidents[k].incident_id = key}

\* C12: for a query window with start <= end, fetch_aws_incidents emits for
\* each incident key at most one Incident; it emits one exactly when the span
\* [earliest update, latest update] of the key overlaps the window, whether or
\* not any update lies inside the window; its window is that span clamped and
\* its title is the title of an update that bears the latest timestamp.
C12_MergedGroupClamped ==
    (pc = "aws_returned" /\ start.t <= end.t) =>
        /\ \A k \in 1..Len(incidents) :
              \E i \in Usable : incidents[k].incident_id = KeyOf(i)
        /\ \A i \in Usable :
              LET key == KeyOf(i)
                  lo == Earliest(key)
                  hi == Latest(key)
              IN  /\ Cardinality(EmittedFor(key)) <= 1
                  /\ (hi < start.t \/ lo > end.t) => EmittedFor(key) = {}
                  /\ ~(hi < start.t \/ lo > end.t) =>
                        \E k \in EmittedFor(key) :
                            /\ incidents[k].start.t = (IF lo >= start.t THEN lo ELSE start.t)
                            /\ incidents[k].end.t = (IF hi <= end.t THEN hi ELSE end.t)
                            /\ \E j \in UpdatesOf(key) :
                                  DayOf(j) = hi /\ feed[j].title = incidents[k].title

\* a key with one update before the window and one after it, none inside,
\* the later update arriving first: one Incident, spanning the whole window
C12_Witness ==
    /\ pc = "aws_returned" /\ start.t <= end.t /\ Len(feed) = 2
    /\ KeyOf(1) = KeyOf(2)
    /\ DayOf(2) < start.t /\ end.t < DayOf(1)
    /\ Len(incidents) = 1
    /\ incidents[1].start = start /\ incidents[1].end = end
    /\ incidents[1].title = feed[1].title /\ feed[1].title # feed[2].title

\* what each shape of a dict payload yields, taken alone
AltNames == <<"portinfo", "data", "history", "timeseries", "series">>
TopLevel(p) == AsList(Get(p, "portinfo"))
Nested(p) ==
    LET ph == Get(p, "porthistory")
        named == {n \in 1..Len(AltNames) : AsList(Get(ph, AltNames[n])) # <<>>}
        elems == {i \in 1..Len(ph.vals) :
                     IsDict(ph.vals[i]) /\ AsList(Get(ph.vals[i], "portinfo")) # <<>>}
    IN  IF IsDict(ph) /\ named # {}
        THEN AsList(Get(ph, AltNames[CHOOSE n \in named : \A m \in named : n <= m]))
        ELSE IF IsList(ph) /\ elems # {}
        THEN AsList(Get(ph.vals[CHOOSE i \in elems : \A j \in elems : i <= j], "portinfo"))
        ELSE <<>>
DigitIdx(p) == {i \in 1..Len(p.keys) : IsDigit(p.keys[i]) /\ IsDict(p.vals[i])}
IsNumericResult(r, p) ==
    /\ Len(r) = Cardinality(DigitIdx(p))
    /\ \E f \in [1..Len(r) -> DigitIdx(p)] :
          /\ \A a, b \in 1..Len(r) : a # b => f[a] # f[b]
          /\ \A a \in 1..Len(r) : r[a] = p.vals[f[a]]
    /\ KeySorted(r)

\* C13: _extract_portinfo_list tries (1) the payload as a list, (2) top-level
\* "portinfo", (3) "porthistory" (its "portinfo", then the alternate names; or
\* the first element with a "portinfo" when it is a list), (4) the all-digit
\* keys, and returns the first result that is not empty; it returns the empty
\* list when nothing matches.
C13_ShapePriority ==
    xpc = "resolved" =>
        IF IsList(payload) THEN portinfo = SelectSeq(payload.vals, IsDict)
        ELSE IF ~IsDict(payload) THEN portinfo = <<>>
        ELSE IF TopLevel(payload) # <<>> THEN portinfo = TopLevel(payload)
        ELSE IF Nested(payload) # <<>> THEN portinfo = Nested(payload)
        ELSE IsNumericResult(portinfo, payload)

\* a payload with an empty top-level "portinfo", a "porthistory" whose
\* "portinfo" is empty and whose "series" and "data" are not, and
\* index-keyed entries as well: the result is taken from "data"
C13_Witness ==
    /\ xpc = "resolved"
    /\ Has(payload, "portinfo") /\ TopLevel(payload) = <<>>
    /\ IsDict(Get(payload, "porthistory"))
    /\ Has(Get(payload, "porthistory"), "portinfo")
    /\ Has(Get(payload, "porthistory"), "series")
    /\ DigitIdx(payload) # {}
    /\ portinfo = <<EntryOn(4)>>
====
